---- MODULE Spec2Model ----
(***************************************************************************)
(* A state-machine model of contracts/src.ts/deploy.ts: the Deployer class *)
(* (address bookkeeping, proxied deployments, the upgrade gatekeeper, the  *)
(* Etherscan publication loop) and the three test-token helpers.           *)
(*                                                                         *)
(* Every `await` of the source is a step.  A transaction is first sent     *)
(* (the promise of the contract call resolves with a pending transaction,  *)
(* or rejects) and later mined by the chain (action Mine), which confirms  *)
(* or reverts it; `.wait()` and waffle's deployContract block until the    *)
(* transaction is mined and throw when it was reverted.                    *)
(***************************************************************************)
EXTENDS Integers, Sequences, FiniteSets, TLC

\* ------------------------------------------------------------------ bounds

\* The number of contract creations the chain accepts in one behaviour.
MaxDeploys == 7

\* The number of rejected calls and reverted transactions in one behaviour.
MaxFaults == 1

\* The number of verifysourcecode submissions the explorer answers in one
\* top-level publication.
MaxSubmits == 23

\* --------------------------------------------------------------- constants

\* `undefined`: an environment variable that is not set, a missing result.
Undefined == 0

\* this.wallet.address
WalletAddress == -9

\* process.env.OPERATOR_FRANKLIN_ADDRESS
OperatorFranklinAddress == -8

\* process.env.GENESIS_ROOT || ethers.constants.HashZero
GenesisRoot == -10

\* The first address the chain gives to a contract created in this run.
FirstDeployed == 1

Keys == {"GovernanceTarget", "VerifierTarget", "FranklinTarget",
         "Governance", "Verifier", "Franklin", "UpgradeGatekeeper"}

HashKeys == {"Governance", "Franklin"}

ProxyNames == {"Governance", "Verifier", "Franklin"}

\* name + "Target"
TargetKey(name) ==
    CASE name = "Governance" -> "GovernanceTarget"
      [] name = "Verifier"   -> "VerifierTarget"
      [] name = "Franklin"   -> "FranklinTarget"

\* The addresses the environment supplies when its variables are set.
EnvAddress(key) ==
    CASE key = "GovernanceTarget"  -> -1
      [] key = "VerifierTarget"    -> -2
      [] key = "FranklinTarget"    -> -3
      [] key = "Governance"        -> -4
      [] key = "Verifier"          -> -5
      [] key = "Franklin"          -> -6
      [] key = "UpgradeGatekeeper" -> -7

\* The genesis transaction hashes the environment supplies.
EnvHash(key) ==
    CASE key = "Governance" -> -11
      [] key = "Franklin"   -> -12

\* The hash of the transaction that creates the contract at address a.
DeployTxHash(a) == 100 + a

DeployOps == {"deployGovernance", "deployVerifier", "deployFranklin"}

TokenOps == {"addTestERC20Token", "mintTestERC20Token",
             "addTestNotApprovedERC20Token"}

\* The proxy a deploy operation is about.
NameOf(o) ==
    CASE o = "deployGovernance" -> "Governance"
      [] o = "deployVerifier"   -> "Verifier"
      [] o = "deployFranklin"   -> "Franklin"

VARIABLES
    bytecodes,              \* Deployer.bytecodes
    addresses,              \* Deployer.addresses
    deployTransactionHash,  \* Deployer.deployTransactionHash
    contracts,              \* the contracts created on chain in this run
    nextAddr,               \* the address of the next contract created
    faults,                 \* the calls rejected and transactions reverted so far
    op,                     \* the operation in progress or last completed
    pc,                     \* its position
    idx,                    \* deployUpgradeGatekeeper: position in ProxyOrder
    input,                  \* the contract argument of a token helper
    txs,                    \* the transactions this operation has sent
    ret,                    \* the address of the contract it returned
    threw,                  \* it rejected (the error reached the caller)
    console,                \* what it wrote with console.error / console.log
    network,                \* process.env.ETH_NETWORK
    frames,                 \* publishSourceCodeToEtherscan: the call stack
    ppc,                    \* its position (in the innermost call)
    trace                   \* its requests, answers, sleeps and log lines

vars == <<bytecodes, addresses, deployTransactionHash, contracts, nextAddr, faults,
          op, pc, idx, input, txs, ret, threw, console,
          network, frames, ppc, trace>>

deployerVars == <<bytecodes, addresses, deployTransactionHash>>
chainVars == <<contracts, nextAddr, faults>>
publishVars == <<network, frames, ppc, trace>>

\* ------------------------------------------------------------- constructor

\* Deployer.constructor: the bytecode table.
Bytecodes(isTest) ==
    [k \in Keys |->
        CASE k = "GovernanceTarget"  -> IF isTest THEN "GovernanceTest" ELSE "Governance"
          [] k = "VerifierTarget"    -> IF isTest THEN "VerifierTest" ELSE "Verifier"
          [] k = "FranklinTarget"    -> IF isTest THEN "FranklinTest" ELSE "Franklin"
          [] k = "UpgradeGatekeeper" -> IF isTest THEN "UpgradeGatekeeperTest"
                                                  ELSE "UpgradeGatekeeper"
          [] OTHER                   -> "Proxy"]

\* Deployer.constructor: the addresses and hashes come from the environment.
EnvAddresses(envSet) ==
    [k \in Keys |-> IF envSet THEN EnvAddress(k) ELSE Undefined]

EnvHashes(envSet) ==
    [k \in HashKeys |-> IF envSet THEN EnvHash(k) ELSE Undefined]

\* --------------------------------------------------- constructor arguments

\* A variant that takes the Franklin arguments from the environment.
initializationArgsFromEnv(contractName) ==
    CASE contractName = "Governance" -> <<<<"address">>, <<WalletAddress>>>>
      [] contractName = "Verifier"   -> <<<< >>, << >>>>
      [] contractName = "Franklin"   ->
            <<<<"address", "address", "address", "bytes32">>,
              <<EnvAddress("Governance"), EnvAddress("Verifier"),
                OperatorFranklinAddress, GenesisRoot>>>>

\* The pair [types, values].
initializationArgs(contractName) ==
    CASE contractName = "Governance" -> <<<<"address">>, <<WalletAddress>>>>
      [] contractName = "Verifier"   -> <<<< >>, << >>>>
      [] contractName = "Franklin"   ->
            <<<<"address", "address", "address", "bytes32">>,
              <<addresses["Governance"], addresses["Verifier"],
                OperatorFranklinAddress, GenesisRoot>>>>

\* abi.rawEncode(types, values): one 32-byte word per value, in order; an
\* address and a bytes32 are encoded as the number they are.
encodedInitializationArgs(contractName) ==
    LET initArgs == initializationArgs(contractName)[1]
        initArgsValues == initializationArgs(contractName)[2]
    IN  [i \in 1..Len(initArgs) |-> initArgsValues[i]]

constructorArgs(contractName) ==
    CASE contractName \in {"GovernanceTarget", "VerifierTarget", "FranklinTarget"} ->
            << >>
      [] contractName = "Governance" ->
            <<addresses["GovernanceTarget"], encodedInitializationArgs("Governance")>>
      [] contractName = "Verifier" ->
            <<addresses["VerifierTarget"], encodedInitializationArgs("Verifier")>>
      [] contractName = "Franklin" ->
            <<addresses["FranklinTarget"], encodedInitializationArgs("Franklin")>>
      [] contractName = "UpgradeGatekeeper" ->
            <<addresses["Franklin"]>>

\* ------------------------------------------------------------ transactions

DeployTx(key, code, args) ==
    [kind |-> "deploy", key |-> key, code |-> code, args |-> args,
     addr |-> nextAddr, to |-> Undefined, status |-> "pending", minedAt |-> ""]

CallTx(kind, to, args) ==
    [kind |-> kind, key |-> "", code |-> "", args |-> args,
     addr |-> Undefined, to |-> to, status |-> "pending", minedAt |-> ""]

Last(s) == s[Len(s)]

Pending(s) == {i \in DOMAIN s : s[i].status = "pending"}

\* The contract a confirmed creation leaves on chain; `call` is the first
\* address of the operation that created it, which identifies that operation.
Created(tx) ==
    [addr |-> tx.addr, code |-> tx.code, key |-> tx.key, args |-> tx.args,
     call |-> txs[1].addr]

\* The chain mines a pending transaction: it is confirmed or reverted.
\* minedAt is where the operation that sent it stood at that moment.
Mine ==
    /\ \E i \in Pending(txs) : \E outcome \in {"confirmed", "reverted"} :
        /\ outcome = "reverted" => faults < MaxFaults
        /\ faults' = IF outcome = "reverted" THEN faults + 1 ELSE faults
        /\ txs' = [txs EXCEPT ![i].status = outcome, ![i].minedAt = pc]
        /\ contracts' = IF txs[i].kind = "deploy" /\ outcome = "confirmed"
                        THEN contracts \cup {Created(txs[i])}
                        ELSE contracts
    /\ UNCHANGED <<deployerVars, nextAddr, op, pc, idx, input, ret, threw,
                   console, publishVars>>

\* A promise rejects and nothing catches it: the operation rejects.
Throw ==
    /\ pc' = "done"
    /\ threw' = TRUE
    /\ ret' = Undefined
    /\ UNCHANGED console

\* A promise rejects inside try: the catch clause logs and the function
\* completes with no value.
Catch(msg) ==
    /\ pc' = "done"
    /\ console' = Append(console, msg)
    /\ ret' = Undefined
    /\ UNCHANGED threw

\* A caller invokes an operation when none is running: its locals are fresh,
\* and what the previous one sent, returned and logged is no longer looked at.
Begin(o, first, arg) ==
    /\ pc \in {"idle", "done"}
    /\ op' = o
    /\ pc' = first
    /\ idx' = 1
    /\ input' = arg
    /\ txs' = << >>
    /\ ret' = Undefined
    /\ threw' = FALSE
    /\ console' = << >>
    /\ UNCHANGED <<deployerVars, chainVars, publishVars>>

\* deployContract(wallet, code, args): the creation transaction is sent.
SendDeploy(key, code, args, next, Fail) ==
    \/ /\ nextAddr < FirstDeployed + MaxDeploys
       /\ txs' = Append(txs, DeployTx(key, code, args))
       /\ nextAddr' = nextAddr + 1
       /\ pc' = next
       /\ UNCHANGED <<ret, threw, console, faults>>
    \/ /\ faults < MaxFaults
       /\ faults' = faults + 1
       /\ Fail
       /\ UNCHANGED <<txs, nextAddr>>

\* `await tx.wait()` / deployContract's wait: blocked until the last
\* transaction is mined; TRUE when it was confirmed.
Mined == txs # << >> /\ Last(txs).status # "pending"
Confirmed == Last(txs).status = "confirmed"

\* ----------------------------------------- deployGovernance/Verifier/Franklin

deployGovernance == Begin("deployGovernance", "target_send", Undefined)

deployVerifier == Begin("deployVerifier", "target_send", Undefined)

deployFranklin == Begin("deployFranklin", "target_send", Undefined)

\* A variant that forgets to record the target.
RecordTargetSkipped(name, a) == addresses

\* this.addresses.<Name>Target = target.address
RecordTarget(name, a) == [addresses EXCEPT ![TargetKey(name)] = a]

\* this.addresses.<Name> = proxy.address
RecordProxy(name, a) == [addresses EXCEPT ![name] = a]

\* A variant in which deployVerifier records a hash too.
RecordHashAlways(name, a) ==
    (name :> DeployTxHash(a)) @@ deployTransactionHash

\* this.deployTransactionHash.<Name> = proxy.deployTransaction.hash
\* (deployVerifier has no such line).
RecordHash(name, a) ==
    IF name \in HashKeys
    THEN [deployTransactionHash EXCEPT ![name] = DeployTxHash(a)]
    ELSE deployTransactionHash

\* const target = await deployContract(wallet, bytecodes.<Name>Target, ...): sent
DeployTargetSend ==
    /\ op \in DeployOps /\ pc = "target_send"
    /\ SendDeploy(TargetKey(NameOf(op)), bytecodes[TargetKey(NameOf(op))],
                  constructorArgs(TargetKey(NameOf(op))), "target_wait", Throw)
    /\ UNCHANGED <<deployerVars, contracts, op, idx, input, publishVars>>

\* ... mined; this.addresses.<Name>Target = target.address
DeployTargetWait ==
    /\ op \in DeployOps /\ pc = "target_wait" /\ Mined
    /\ \/ /\ Confirmed
          /\ addresses' = RecordTarget(NameOf(op), Last(txs).addr)
          /\ pc' = "proxy_send"
          /\ UNCHANGED <<ret, threw, console>>
       \/ /\ ~Confirmed
          /\ Throw
          /\ UNCHANGED addresses
    /\ UNCHANGED <<bytecodes, deployTransactionHash, chainVars, op, idx, input,
                   txs, publishVars>>

\* const proxy = await deployContract(wallet, bytecodes.<Name>,
\*                                    this.constructorArgs('<Name>'), ...): sent
DeployProxySend ==
    /\ op \in DeployOps /\ pc = "proxy_send"
    /\ SendDeploy(NameOf(op), bytecodes[NameOf(op)],
                  constructorArgs(NameOf(op)), "proxy_wait", Throw)
    /\ UNCHANGED <<deployerVars, contracts, op, idx, input, publishVars>>

\* ... mined; the proxy's address and creation hash are recorded and the
\* proxy is returned.
DeployProxyWait ==
    /\ op \in DeployOps /\ pc = "proxy_wait" /\ Mined
    /\ \/ /\ Confirmed
          /\ addresses' = RecordProxy(NameOf(op), Last(txs).addr)
          /\ deployTransactionHash' = RecordHash(NameOf(op), Last(txs).addr)
          /\ pc' = "done"
          /\ ret' = Last(txs).addr
          /\ UNCHANGED <<threw, console>>
       \/ /\ ~Confirmed
          /\ Throw
          /\ UNCHANGED <<addresses, deployTransactionHash>>
    /\ UNCHANGED <<bytecodes, chainVars, op, idx, input, txs, publishVars>>

\* --------------------------------------------------- deployUpgradeGatekeeper

\* A variant with the first two lines of each group exchanged.
ProxyOrderSwapped == <<"Verifier", "Governance", "Franklin">>

\* The order of the transferMastership lines and of the addUpgradeable lines.
ProxyOrder == <<"Governance", "Verifier", "Franklin">>

\* getDeployedContract(name).address
getDeployedContract(name) == addresses[name]

\* A call on a contract object: the transaction is sent, or the call rejects.
\* A contract object without an address cannot send.
SendCall(kind, to, args, next, Fail) ==
    \/ /\ to # Undefined
       /\ txs' = Append(txs, CallTx(kind, to, args))
       /\ pc' = next
       /\ UNCHANGED <<ret, threw, console, faults>>
    \/ /\ to # Undefined
       /\ faults < MaxFaults
       /\ faults' = faults + 1
       /\ Fail
       /\ UNCHANGED txs
    \/ /\ to = Undefined
       /\ Fail
       /\ UNCHANGED <<txs, faults>>

deployUpgradeGatekeeper == Begin("deployUpgradeGatekeeper", "gk_send", Undefined)

\* const contract = await deployContract(wallet, bytecodes.UpgradeGatekeeper,
\*                                       this.constructorArgs('UpgradeGatekeeper')): sent
GatekeeperSend ==
    /\ op = "deployUpgradeGatekeeper" /\ pc = "gk_send"
    /\ SendDeploy("UpgradeGatekeeper", bytecodes["UpgradeGatekeeper"],
                  constructorArgs("UpgradeGatekeeper"), "gk_wait", Throw)
    /\ UNCHANGED <<deployerVars, contracts, op, idx, input, publishVars>>

\* ... mined; this.addresses.UpgradeGatekeeper = contract.address
GatekeeperWait ==
    /\ op = "deployUpgradeGatekeeper" /\ pc = "gk_wait" /\ Mined
    /\ \/ /\ Confirmed
          /\ addresses' = [addresses EXCEPT !["UpgradeGatekeeper"] = Last(txs).addr]
          /\ pc' = "tm_send"
          /\ UNCHANGED <<ret, threw, console>>
       \/ /\ ~Confirmed
          /\ Throw
          /\ UNCHANGED addresses
    /\ UNCHANGED <<bytecodes, deployTransactionHash, chainVars, op, idx, input,
                   txs, publishVars>>

\* await this.getDeployedContract(name).transferMastership(contract.address)
TransferMastershipSend ==
    /\ op = "deployUpgradeGatekeeper" /\ pc = "tm_send"
    /\ SendCall("transferMastership", getDeployedContract(ProxyOrder[idx]),
                <<txs[1].addr>>, "tm_wait", Throw)
    /\ UNCHANGED <<deployerVars, contracts, nextAddr, op, idx, input, publishVars>>

\* await (...).wait(), then the next line
TransferMastershipWait ==
    /\ op = "deployUpgradeGatekeeper" /\ pc = "tm_wait" /\ Mined
    /\ \/ /\ Confirmed
          /\ IF idx < Len(ProxyOrder)
             THEN idx' = idx + 1 /\ pc' = "tm_send"
             ELSE idx' = 1 /\ pc' = "au_send"
          /\ UNCHANGED <<ret, threw, console>>
       \/ /\ ~Confirmed
          /\ Throw
          /\ UNCHANGED idx
    /\ UNCHANGED <<deployerVars, chainVars, op, input, txs, publishVars>>

\* await contract.addUpgradeable(this.getDeployedContract(name).address)
AddUpgradeableSend ==
    /\ op = "deployUpgradeGatekeeper" /\ pc = "au_send"
    /\ SendCall("addUpgradeable", txs[1].addr,
                <<getDeployedContract(ProxyOrder[idx])>>, "au_wait", Throw)
    /\ UNCHANGED <<deployerVars, contracts, nextAddr, op, idx, input, publishVars>>

\* await (...).wait(), then the next line; after the last one, return contract
AddUpgradeableWait ==
    /\ op = "deployUpgradeGatekeeper" /\ pc = "au_wait" /\ Mined
    /\ \/ /\ Confirmed
          /\ IF idx < Len(ProxyOrder)
             THEN idx' = idx + 1 /\ pc' = "au_send" /\ UNCHANGED ret
             ELSE idx' = idx /\ pc' = "done" /\ ret' = txs[1].addr
          /\ UNCHANGED <<threw, console>>
       \/ /\ ~Confirmed
          /\ Throw
          /\ UNCHANGED idx
    /\ UNCHANGED <<deployerVars, chainVars, op, input, txs, publishVars>>

\* ------------------------------------------------------------- test tokens

\* The test tokens on chain.
Tokens == {c.addr : c \in {d \in contracts : d.code = "ERC20Mintable"}}

\* addTestERC20Token(wallet, governance): the caller passes the Governance
\* contract it holds.
addTestERC20Token ==
    \E governance \in {addresses["Governance"]} :
        Begin("addTestERC20Token", "add_erc20_send", governance)

\* let erc20 = await deployContract(wallet, ERC20MintableContract, [], ...): sent
AddTokenDeploySend ==
    /\ op = "addTestERC20Token" /\ pc = "add_erc20_send"
    /\ SendDeploy("ERC20", "ERC20Mintable", << >>, "add_erc20_wait",
                  Catch("Add token error:"))
    /\ UNCHANGED <<deployerVars, contracts, op, idx, input, publishVars>>

\* ... mined
AddTokenDeployWait ==
    /\ op = "addTestERC20Token" /\ pc = "add_erc20_wait" /\ Mined
    /\ \/ /\ Confirmed
          /\ pc' = "add_mint"
          /\ UNCHANGED <<ret, threw, console>>
       \/ /\ ~Confirmed
          /\ Catch("Add token error:")
    /\ UNCHANGED <<deployerVars, chainVars, op, idx, input, txs, publishVars>>

\* await erc20.mint(wallet.address, parseEther("3000000000")): the promise
\* resolves when the transaction is sent; its receipt is not awaited.
AddTokenMint ==
    /\ op = "addTestERC20Token" /\ pc = "add_mint"
    /\ SendCall("mint", txs[1].addr, <<WalletAddress, "3000000000 ether">>,
                "add_addtoken_send", Catch("Add token error:"))
    /\ UNCHANGED <<deployerVars, contracts, nextAddr, op, idx, input, publishVars>>

\* await governance.addToken(erc20.address): sent
AddTokenSend ==
    /\ op = "addTestERC20Token" /\ pc = "add_addtoken_send"
    /\ SendCall("addToken", input, <<txs[1].addr>>, "add_addtoken_wait",
                Catch("Add token error:"))
    /\ UNCHANGED <<deployerVars, contracts, nextAddr, op, idx, input, publishVars>>

\* await (...).wait(); return erc20
AddTokenWait ==
    /\ op = "addTestERC20Token" /\ pc = "add_addtoken_wait" /\ Mined
    /\ \/ /\ Confirmed
          /\ pc' = "done"
          /\ ret' = txs[1].addr
          /\ UNCHANGED <<threw, console>>
       \/ /\ ~Confirmed
          /\ Catch("Add token error:")
    /\ UNCHANGED <<deployerVars, chainVars, op, idx, input, txs, publishVars>>

\* mintTestERC20Token(wallet, erc20): the caller passes a token, or the
\* undefined result of a failed addTestERC20Token.
mintTestERC20Token ==
    \E erc20 \in Tokens \cup {Undefined} :
        Begin("mintTestERC20Token", "mint_send", erc20)

\* const txCall = await erc20.mint(wallet.address, parseEther("3000000000"))
MintSend ==
    /\ op = "mintTestERC20Token" /\ pc = "mint_send"
    /\ SendCall("mint", input, <<WalletAddress, "3000000000 ether">>,
                "mint_wait", Catch("Mint token error:"))
    /\ UNCHANGED <<deployerVars, contracts, nextAddr, op, idx, input, publishVars>>

\* await txCall.wait(); the function returns no value
MintWait ==
    /\ op = "mintTestERC20Token" /\ pc = "mint_wait" /\ Mined
    /\ \/ /\ Confirmed
          /\ pc' = "done"
          /\ UNCHANGED <<ret, threw, console>>
       \/ /\ ~Confirmed
          /\ Catch("Mint token error:")
    /\ UNCHANGED <<deployerVars, chainVars, op, idx, input, txs, publishVars>>

addTestNotApprovedERC20Token ==
    Begin("addTestNotApprovedERC20Token", "na_erc20_send", Undefined)

\* let erc20 = await deployContract(wallet, ERC20MintableContract, []): sent
NotApprovedDeploySend ==
    /\ op = "addTestNotApprovedERC20Token" /\ pc = "na_erc20_send"
    /\ SendDeploy("ERC20", "ERC20Mintable", << >>, "na_erc20_wait",
                  Catch("Add token error:"))
    /\ UNCHANGED <<deployerVars, contracts, op, idx, input, publishVars>>

\* ... mined
NotApprovedDeployWait ==
    /\ op = "addTestNotApprovedERC20Token" /\ pc = "na_erc20_wait" /\ Mined
    /\ \/ /\ Confirmed
          /\ pc' = "na_mint"
          /\ UNCHANGED <<ret, threw, console>>
       \/ /\ ~Confirmed
          /\ Catch("Add token error:")
    /\ UNCHANGED <<deployerVars, chainVars, op, idx, input, txs, publishVars>>

\* await erc20.mint(wallet.address, bigNumberify("1000000000")); return erc20:
\* the promise resolves when the transaction is sent.
NotApprovedMint ==
    /\ op = "addTestNotApprovedERC20Token" /\ pc = "na_mint"
    /\ \/ /\ txs' = Append(txs, CallTx("mint", txs[1].addr,
                                       <<WalletAddress, "1000000000 wei">>))
          /\ pc' = "done"
          /\ ret' = txs[1].addr
          /\ UNCHANGED <<threw, console, faults>>
       \/ /\ faults < MaxFaults
          /\ faults' = faults + 1
          /\ Catch("Add token error:")
          /\ UNCHANGED txs
    /\ UNCHANGED <<deployerVars, contracts, nextAddr, op, idx, input, publishVars>>

\* ------------------------------------------------ publishSourceCodeToEtherscan

Networks == {"mainnet", "rinkeby", "ropsten"}

\* The contracts whose sources are published.
PublishNames == {"Governance", "UpgradeGatekeeper"}

\* network === 'mainnet' ? 'https://api.etherscan.io/api'
\*                       : `https://api-${network}.etherscan.io/api`
\* The host is <<"api", "">> . "etherscan.io" or <<"api-", network>> . "etherscan.io".
EtherscanApiUrl(net) ==
    IF net = "mainnet"
    THEN [scheme |-> "https", host |-> <<"api", "", ".etherscan.io">>, path |-> "/api"]
    ELSE [scheme |-> "https", host |-> <<"api-", net, ".etherscan.io">>, path |-> "/api"]

\* `http://api.etherscan.io/api?module=contract&&action=checkverifystatus&&guid=...`:
\* a literal, whatever the network.
CheckStatusUrl(net) ==
    [scheme |-> "http", host |-> <<"api", "", ".etherscan.io">>, path |-> "/api"]

NoUrl == [scheme |-> "", host |-> << >>, path |-> ""]

NoData == [status |-> Undefined, result |-> ""]

\* What the explorer can answer to a verifysourcecode submission.
Responses ==
    {[status |-> 1, result |-> "guid"],
     [status |-> 0, result |-> "Unable to locate ContractCode at 0x"],
     [status |-> 0, result |-> "Invalid API Key"]}

\* What it can answer to a checkverifystatus request.
Statuses ==
    {[status |-> 0, result |-> "Pending in queue"],
     [status |-> 1, result |-> "Pass - Verified"],
     [status |-> 0, result |-> "Fail - Unable to verify"]}

\* text.includes(needle), for the texts and needles above.
Includes(text, needle) ==
    <<text, needle>> \in
        {<<"Unable to locate ContractCode at 0x", "Unable to locate ContractCode">>,
         <<"Pending in queue", "Pending in queue">>}

\* let retriesLeft = 20
SubmitRetries == 20

\* let retriesLeft = 10 (the inner one)
PollRetries == 10

\* sleep(15000)
SubmitDelay == 15000

\* sleep(5000)
PollDelay == 5000

\* A variant that never recognises the 'not yet indexed' answer.
NotIndexedNever(r) == FALSE

\* r.data.status != 1 && r.data.result.includes('Unable to locate ContractCode')
NotIndexed(r) ==
    r.status # 1 /\ Includes(r.result, "Unable to locate ContractCode")

\* A variant with the test inverted: it leaves the loop while pending.
PollBreakInverted(st) == Includes(st.result, "Pending in queue") = TRUE

\* status.result.includes('Pending in queue') == false
PollBreak(st) == Includes(st.result, "Pending in queue") = FALSE

Event(ev) ==
    [ev |-> ev, name |-> "", url |-> NoUrl, guid |-> "", res |-> NoData,
     ms |-> 0, msg |-> ""]

PostEvent(name, url, r) == [Event("post") EXCEPT !.name = name, !.url = url, !.res = r]
GetEvent(url, guid, st) == [Event("get") EXCEPT !.url = url, !.guid = guid, !.res = st]
SleepEvent(ms) == [Event("sleep") EXCEPT !.ms = ms]
LogEvent(name, msg, data) == [Event("log") EXCEPT !.name = name, !.msg = msg, !.res = data]

\* A call's locals: contractname, r.data, the two retriesLeft and status.
Frame(contractname) ==
    [contractname |-> contractname, r |-> NoData, retriesLeft |-> Undefined,
     pollRetriesLeft |-> Undefined, status |-> NoData]

Top == frames[Len(frames)]

SetTop(f) == [frames EXCEPT ![Len(frames)] = f]

Posts(t) == {i \in DOMAIN t : t[i].ev = "post"}

\* A caller invokes deployer.publishSourceCodeToEtherscan(contractname).
publishSourceCodeToEtherscan ==
    /\ ppc \in {"idle", "done"}
    /\ \E contractname \in PublishNames :
        frames' = <<Frame(contractname)>>
    /\ trace' = << >>
    /\ ppc' = "post"
    /\ UNCHANGED <<deployerVars, chainVars, op, pc, idx, input, txs, ret, threw,
                   console, network>>

\* console.log(`Published ${contractname} sources on ... with status`, status)
Published(f) == LogEvent(f.contractname, "Published", f.status)

\* while (retriesLeft --> 0): the test, then the request or the log line.
\* t is the trace so far, f the frame before the test.
LoopTest(t, f) ==
    LET g == [f EXCEPT !.pollRetriesLeft = f.pollRetriesLeft - 1] IN
    IF f.pollRetriesLeft > 0
    THEN /\ ppc' = "poll"
         /\ frames' = SetTop(g)
         /\ trace' = t
    ELSE /\ ppc' = "return"
         /\ frames' = SetTop(g)
         /\ trace' = Append(t, Published(g))

\* let r = await Axios.post(etherscanApiUrl, qs.stringify(data));
\* let retriesLeft = 20; and the branch on r.data
Post ==
    /\ ppc = "post"
    /\ Cardinality(Posts(trace)) < MaxSubmits
    /\ \E r \in Responses :
        LET f == [Top EXCEPT !.r = r, !.retriesLeft = SubmitRetries]
            t == Append(trace, PostEvent(f.contractname, EtherscanApiUrl(network), r))
        IN  IF r.status # 1
            THEN IF NotIndexed(r)
                 THEN /\ ppc' = "sleep15"
                      /\ frames' = SetTop(f)
                      /\ trace' = t
                 ELSE /\ ppc' = "return"
                      /\ frames' = SetTop(f)
                      /\ trace' = Append(t, LogEvent(f.contractname,
                                                     "Problem publishing", r))
            ELSE LoopTest(t, [f EXCEPT !.pollRetriesLeft = PollRetries])
    /\ UNCHANGED <<deployerVars, chainVars, op, pc, idx, input, txs, ret, threw,
                   console, network>>

\* await sleep(15000); if (retriesLeft > 0) { --retriesLeft;
\*     await this.publishSourceCodeToEtherscan(contractname); }
Sleep15 ==
    /\ ppc = "sleep15"
    /\ trace' = Append(trace, SleepEvent(SubmitDelay))
    /\ IF Top.retriesLeft > 0
       THEN /\ frames' = Append(SetTop([Top EXCEPT !.retriesLeft = Top.retriesLeft - 1]),
                                Frame(Top.contractname))
            /\ ppc' = "post"
       ELSE /\ ppc' = "return"
            /\ UNCHANGED frames
    /\ UNCHANGED <<deployerVars, chainVars, op, pc, idx, input, txs, ret, threw,
                   console, network>>

\* status = await Axios.get(`http://api.etherscan.io/api?...&&guid=${r.data.result}`);
\* if (status.result.includes('Pending in queue') == false) break;
Poll ==
    /\ ppc = "poll"
    /\ \E st \in Statuses :
        LET f == [Top EXCEPT !.status = st]
            t == Append(trace, GetEvent(CheckStatusUrl(network), f.r.result, st))
        IN  IF PollBreak(st)
            THEN /\ ppc' = "return"
                 /\ frames' = SetTop(f)
                 /\ trace' = Append(t, Published(f))
            ELSE /\ ppc' = "sleep5"
                 /\ frames' = SetTop(f)
                 /\ trace' = t
    /\ UNCHANGED <<deployerVars, chainVars, op, pc, idx, input, txs, ret, threw,
                   console, network>>

\* await sleep(5000); and the loop test again
Sleep5 ==
    /\ ppc = "sleep5"
    /\ LoopTest(Append(trace, SleepEvent(PollDelay)), Top)
    /\ UNCHANGED <<deployerVars, chainVars, op, pc, idx, input, txs, ret, threw,
                   console, network>>

\* The innermost call returns: its caller resumes after line 286 and returns
\* in turn; the outermost call's promise resolves.
Return ==
    /\ ppc = "return"
    /\ frames' = SubSeq(frames, 1, Len(frames) - 1)
    /\ ppc' = IF Len(frames) = 1 THEN "done" ELSE "return"
    /\ UNCHANGED <<deployerVars, chainVars, op, pc, idx, input, txs, ret, threw,
                   console, network, trace>>

\* ------------------------------------------------------------ specifications

\* new Deployer(wallet, isTest): the production contracts; the test ones
\* differ in the code deployed only.
InitDeployer ==
    /\ bytecodes = Bytecodes(FALSE)
    /\ \E envSet \in BOOLEAN :
        /\ addresses = EnvAddresses(envSet)
        /\ deployTransactionHash = EnvHashes(envSet)
    /\ contracts = {}
    /\ nextAddr = FirstDeployed
    /\ faults = 0
    /\ op = "none"
    /\ pc = "idle"
    /\ idx = 1
    /\ input = Undefined
    /\ txs = << >>
    /\ ret = Undefined
    /\ threw = FALSE
    /\ console = << >>

InitPublish ==
    /\ frames = << >>
    /\ ppc = "idle"
    /\ trace = << >>

Init ==
    /\ InitDeployer
    /\ network = "mainnet"
    /\ InitPublish

Next ==
    \/ deployGovernance
    \/ deployVerifier
    \/ deployFranklin
    \/ DeployTargetSend
    \/ DeployTargetWait
    \/ DeployProxySend
    \/ DeployProxyWait
    \/ deployUpgradeGatekeeper
    \/ GatekeeperSend
    \/ GatekeeperWait
    \/ TransferMastershipSend
    \/ TransferMastershipWait
    \/ AddUpgradeableSend
    \/ AddUpgradeableWait
    \/ Mine

\* The Deployer's deploy operations, called one at a time.
Spec == Init /\ [][Next]_vars

NextT ==
    \/ addTestERC20Token
    \/ AddTokenDeploySend
    \/ AddTokenDeployWait
    \/ AddTokenMint
    \/ AddTokenSend
    \/ AddTokenWait
    \/ mintTestERC20Token
    \/ MintSend
    \/ MintWait
    \/ addTestNotApprovedERC20Token
    \/ NotApprovedDeploySend
    \/ NotApprovedDeployWait
    \/ NotApprovedMint
    \/ Mine

\* The test-token helpers, called one at a time.
SpecTokens == Init /\ [][NextT]_vars

InitP ==
    /\ InitDeployer
    /\ network \in Networks
    /\ InitPublish

NextP ==
    \/ publishSourceCodeToEtherscan
    \/ Post
    \/ Sleep15
    \/ Poll
    \/ Sleep5
    \/ Return

\* Source publication, for every ETH_NETWORK.
SpecPublish == InitP /\ [][NextP]_vars

\* ------------------------------------------------- properties: publication

Gets(t) == {i \in DOMAIN t : t[i].ev = "get"}

Logs(t, msg) == {i \in DOMAIN t : t[i].ev = "log" /\ t[i].msg = msg}

\* The submissions the explorer accepted, refused as not yet indexed, and
\* refused for another reason.
AcceptedPosts(t) == {i \in Posts(t) : t[i].res.status = 1}

UnlocatedPosts(t) ==
    {i \in Posts(t) : t[i].res.status # 1
                      /\ t[i].res.result = "Unable to locate ContractCode at 0x"}

RefusedPosts(t) ==
    {i \in Posts(t) : t[i].res.status # 1
                      /\ t[i].res.result # "Unable to locate ContractCode at 0x"}

PendingGets(t) == {i \in Gets(t) : t[i].res.result = "Pending in queue"}

\* C1: one publication makes at most 21 verifysourcecode submissions (the
\* first and at most 20 resubmissions), whatever the explorer answers.
C1_BoundedSubmissions == Cardinality(Posts(trace)) <= 21

\* C4, as stated: when a publication has returned, every submission answered
\* with status != 1 has had its response data logged.
C4_EveryFailureLogged ==
    ppc = "done" =>
        \A i \in Posts(trace) :
            trace[i].res.status # 1 =>
                \E j \in Logs(trace, "Problem publishing") :
                    j > i /\ trace[j].res = trace[i].res

\* C4, amended: a response with status != 1 that is not 'Unable to locate
\* ContractCode' is logged at once and exactly once, nothing is submitted or
\* polled after it, and the calls only return from there; a response that is
\* 'Unable to locate ContractCode' is never logged: it is followed by the
\* 15000 ms sleep only.
C4_OtherFailureLoggedOnce ==
    /\ \A i \in RefusedPosts(trace) :
        /\ Len(trace) = i + 1
        /\ trace[i + 1] = LogEvent(trace[i].name, "Problem publishing", trace[i].res)
        /\ ppc \in {"return", "done"}
    /\ \A j \in Logs(trace, "Problem publishing") :
        /\ j - 1 \in RefusedPosts(trace)
        /\ trace[j].res.result # "Unable to locate ContractCode at 0x"
    /\ \A i \in UnlocatedPosts(trace) :
        i < Len(trace) => trace[i + 1] = SleepEvent(15000)
    /\ Gets(trace) # {} => RefusedPosts(trace) = {}

\* A publication that was first refused as not yet indexed and then refused
\* for another reason has returned.
C4_Witness ==
    /\ ppc = "done"
    /\ UnlocatedPosts(trace) # {}
    /\ RefusedPosts(trace) # {}

\* C7: after an accepted submission there are between 1 and 10 polls, all
\* after it; each pending answer is followed by a 5000 ms sleep, the first
\* answer that is not pending by the 'Published' line and nothing else; the
\* line is written once, last, with the last status received, also after a
\* tenth pending answer; and the publication never stops before it returned.
C7_BoundedPolling ==
    /\ Cardinality(AcceptedPosts(trace)) <= 1
    /\ Gets(trace) # {} => AcceptedPosts(trace) # {}
    /\ Cardinality(Gets(trace)) <= 10
    /\ \A a \in AcceptedPosts(trace) :
        /\ \A i \in Posts(trace) : i <= a
        /\ \A i \in Gets(trace) : i > a /\ trace[i].guid = trace[a].res.result
        /\ a < Len(trace) => trace[a + 1].ev = "get"
        /\ a = Len(trace) => ppc = "poll"
        /\ Len(trace) - a <= 21
        /\ ppc \in {"poll", "sleep5", "return", "done"}
        /\ ppc # "done" => ENABLED (Poll \/ Sleep5 \/ Return)
        /\ ppc = "poll" => Cardinality(Gets(trace)) < 10
        /\ ppc \in {"return", "done"} <=> Logs(trace, "Published") # {}
    /\ \A i \in Gets(trace) :
        /\ i \in PendingGets(trace) =>
              /\ i < Len(trace) => trace[i + 1] = SleepEvent(5000)
              /\ i = Len(trace) => ppc = "sleep5"
        /\ i \notin PendingGets(trace) =>
              /\ Len(trace) = i + 1
              /\ trace[i + 1].ev = "log" /\ trace[i + 1].msg = "Published"
    /\ \A i \in DOMAIN trace :
        (trace[i].ev = "sleep" /\ trace[i].ms = 5000) =>
            /\ i - 1 \in PendingGets(trace)
            /\ i < Len(trace) => trace[i + 1].ev \in {"get", "log"}
            /\ (i < Len(trace) /\ trace[i + 1].ev = "log") =>
                    Cardinality(Gets(trace)) = 10
    /\ \A j \in Logs(trace, "Published") :
        /\ j = Len(trace)
        /\ Gets(trace) # {}
        /\ \A i \in Gets(trace) :
              (\A k \in Gets(trace) : k <= i) => trace[j].res = trace[i].res

\* A publication whose ten polls were all answered pending has returned, with
\* the 'Published' line carrying the pending status.
C7_Witness ==
    /\ ppc = "done"
    /\ Cardinality(PendingGets(trace)) = 10
    /\ trace[Len(trace)].msg = "Published"
    /\ trace[Len(trace)].res.result = "Pending in queue"

\* C8: every checkverifystatus poll goes to the host of the verifysourcecode
\* submission whose guid it carries.
C8_PollsSameEndpoint ==
    \A i \in Gets(trace) :
        \A a \in AcceptedPosts(trace) :
            trace[i].url.host = trace[a].url.host

\* --------------------------------------------------- properties: deployment

Proxies(key) == {c \in contracts : c.key = key}

AllConfirmed(s) == \A i \in DOMAIN s : s[i].status = "confirmed"

\* C5: deployUpgradeGatekeeper sends, in this order and each only after the
\* one before it was confirmed: the gatekeeper's creation with
\* addresses.Franklin as argument, transferMastership(gatekeeper) on
\* Governance, Verifier and Franklin, addUpgradeable for Governance, Verifier
\* and Franklin.  It returns the gatekeeper exactly when all seven were
\* confirmed; a failed transaction is the last one it sent.
C5_GatekeeperOrder ==
    op = "deployUpgradeGatekeeper" =>
        /\ Len(txs) <= 7
        /\ \A i \in DOMAIN txs :
            /\ i < Len(txs) => txs[i].status = "confirmed"
            /\ i = 1 =>
                /\ txs[i].kind = "deploy"
                /\ txs[i].code = bytecodes["UpgradeGatekeeper"]
                /\ txs[i].args = <<addresses["Franklin"]>>
            /\ i \in 2..4 =>
                /\ txs[i].kind = "transferMastership"
                /\ txs[i].to = addresses[<<"Governance", "Verifier", "Franklin">>[i - 1]]
                /\ txs[i].args = <<txs[1].addr>>
            /\ i \in 5..7 =>
                /\ txs[i].kind = "addUpgradeable"
                /\ txs[i].to = txs[1].addr
                /\ txs[i].args = <<addresses[<<"Governance", "Verifier", "Franklin">>[i - 4]]>>
        /\ pc = "done" =>
            /\ threw <=> ~(Len(txs) = 7 /\ AllConfirmed(txs))
            /\ ~threw => /\ ret = txs[1].addr
                         /\ addresses["UpgradeGatekeeper"] = txs[1].addr
            /\ Pending(txs) = {}

\* deployUpgradeGatekeeper has returned the gatekeeper of three proxies this
\* Deployer deployed.
C5_Witness ==
    /\ op = "deployUpgradeGatekeeper" /\ pc = "done" /\ ~threw
    /\ \A n \in ProxyNames : addresses[n] >= FirstDeployed

\* C6: a proxy on chain points at a target created by the same call before
\* it; when the proxy's creation is sent the target is confirmed and recorded;
\* after a successful call addresses.<Name>Target and addresses.<Name> are the
\* two contracts the call created.
C6_ProxyPointsAtOwnTarget ==
    /\ \A n \in ProxyNames : \A c \in Proxies(n) :
        \E t \in Proxies(TargetKey(n)) :
            /\ c.args[1] = t.addr
            /\ t.call = c.call
            /\ t.addr < c.addr
    /\ op \in DeployOps =>
        /\ Len(txs) = 2 =>
            /\ txs[1].status = "confirmed"
            /\ txs[1].key = TargetKey(NameOf(op))
            /\ txs[2].key = NameOf(op)
            /\ txs[2].args[1] = txs[1].addr
            /\ addresses[TargetKey(NameOf(op))] = txs[1].addr
        /\ (pc = "done" /\ ~threw) =>
            /\ Len(txs) = 2 /\ AllConfirmed(txs)
            /\ addresses[TargetKey(NameOf(op))] = txs[1].addr
            /\ addresses[NameOf(op)] = txs[2].addr
            /\ ret = txs[2].addr
            /\ \E t \in Proxies(TargetKey(NameOf(op))) :
                  t.addr = txs[1].addr /\ t.code = bytecodes[TargetKey(NameOf(op))]
            /\ \E c \in Proxies(NameOf(op)) :
                  c.addr = txs[2].addr /\ c.code = "Proxy"

\* deployGovernance has succeeded a second time: an earlier target exists.
C6_Witness ==
    /\ op = "deployGovernance" /\ pc = "done" /\ ~threw
    /\ \E t \in Proxies("GovernanceTarget") : t.addr # addresses["GovernanceTarget"]

\* The proxy of `key` recorded when the contract at address a was created:
\* the last one created before it, or else what the environment supplied.
RecordedBefore(key, a, x) ==
    LET before == {c.addr : c \in {d \in Proxies(key) : d.addr < a}} IN
    IF before = {}
    THEN x \in {Undefined, EnvAddress(key)}
    ELSE x \in before /\ \A b \in before : b <= x

\* C9: the Franklin proxy is initialized with addresses.Governance and
\* addresses.Verifier as they are when deployFranklin runs, the gatekeeper is
\* constructed with addresses.Franklin as it is when deployUpgradeGatekeeper
\* runs: each is the proxy this Deployer deployed last before, and the
\* environment's value when it deployed none before.
C9_ArgsReadAtCall ==
    /\ (op = "deployFranklin" /\ Len(txs) = 2) =>
          txs[2].args[2] = <<addresses["Governance"], addresses["Verifier"],
                             OperatorFranklinAddress, GenesisRoot>>
    /\ (op = "deployUpgradeGatekeeper" /\ Len(txs) >= 1) =>
          txs[1].args = <<addresses["Franklin"]>>
    /\ \A c \in Proxies("Franklin") :
        /\ RecordedBefore("Governance", c.addr, c.args[2][1])
        /\ RecordedBefore("Verifier", c.addr, c.args[2][2])
    /\ \A g \in Proxies("UpgradeGatekeeper") :
        RecordedBefore("Franklin", g.addr, g.args[1])

\* Two gatekeepers are on chain: one constructed over a Franklin proxy of this
\* Deployer that was initialized with its Governance proxy, one constructed
\* before any Franklin proxy existed.
C9_Witness ==
    /\ \E g \in Proxies("UpgradeGatekeeper") : \E f \in Proxies("Franklin") :
        /\ g.args[1] = f.addr
        /\ f.args[2][1] >= FirstDeployed
    /\ \E g \in Proxies("UpgradeGatekeeper") : g.args[1] < FirstDeployed

\* The entries an operation writes.
Writes(o) ==
    CASE o \in DeployOps -> {TargetKey(NameOf(o)), NameOf(o)}
      [] o = "deployUpgradeGatekeeper" -> {"UpgradeGatekeeper"}
      [] OTHER -> {}

\* C10, the steps: bytecodes never changes; a step changes at most one entry
\* of addresses, one the operation in progress owns, to the address of a
\* contract of that kind that is on chain; a hash entry changes only together
\* with its proxy entry, and there is none for Verifier; a failing step changes
\* nothing.
C10_Step ==
    /\ bytecodes' = bytecodes
    /\ DOMAIN deployTransactionHash' = HashKeys
    /\ \A k \in Keys :
        addresses'[k] # addresses[k] =>
            /\ k \in Writes(op)
            /\ \E c \in Proxies(k) : c.addr = addresses'[k]
            /\ \A j \in Keys \ {k} : addresses'[j] = addresses[j]
    /\ \A h \in HashKeys :
        deployTransactionHash'[h] # deployTransactionHash[h] =>
            /\ h \in Writes(op)
            /\ addresses'[h] # addresses[h]
            /\ deployTransactionHash'[h] = DeployTxHash(addresses'[h])
    /\ (threw' /\ ~threw) =>
            addresses' = addresses /\ deployTransactionHash' = deployTransactionHash

\* C10, the states: once the proxy's creation was sent the target entry holds
\* the new target, and the proxy entry holds the new proxy only after the call
\* succeeded; once a mastership transfer was sent the gatekeeper entry holds
\* the new gatekeeper.
C10_State ==
    /\ (op \in DeployOps /\ txs # << >> /\ txs[1].status = "confirmed"
                         /\ pc # "target_wait") =>
            addresses[TargetKey(NameOf(op))] = txs[1].addr
    /\ (op \in DeployOps /\ Len(txs) = 2) =>
            (addresses[NameOf(op)] = txs[2].addr <=> (pc = "done" /\ ~threw))
    /\ (op \in DeployOps /\ NameOf(op) \in HashKeys /\ Len(txs) = 2) =>
            (deployTransactionHash[NameOf(op)] = DeployTxHash(txs[2].addr)
                <=> (pc = "done" /\ ~threw))
    /\ (op = "deployUpgradeGatekeeper" /\ Len(txs) >= 2) =>
            addresses["UpgradeGatekeeper"] = txs[1].addr

\* C10: each deploy operation changes only its own bookkeeping entries, only
\* after the corresponding creation was confirmed, and a failure leaves the
\* entries written so far and no other.
C10_Frame == [][C10_Step]_vars /\ []C10_State

\* deployGovernance has failed on its proxy after its target was recorded.
C10_Witness ==
    /\ op = "deployGovernance" /\ pc = "done" /\ threw
    /\ Len(txs) = 2 /\ txs[2].status = "reverted"
    /\ addresses["GovernanceTarget"] = txs[1].addr
    /\ addresses["Governance"] # txs[2].addr

\* ------------------------------------------------ properties: test tokens

\* C2: an operation never has a transaction pending when it sends the next
\* one, nor when it returns.
C2_OneTransactionAtATime ==
    /\ \A i \in DOMAIN txs : i < Len(txs) => txs[i].status # "pending"
    /\ pc = "done" => Pending(txs) = {}

\* C3: a token helper never rejects, and when one of its transactions failed
\* while it ran, it has sent nothing after that one, has logged exactly one
\* error and has returned no token.
C3_FailuresCaught ==
    (op \in TokenOps /\ pc = "done") =>
        /\ ~threw
        /\ \A i \in DOMAIN txs :
            (txs[i].status = "reverted" /\ txs[i].minedAt # "done") =>
                /\ i = Len(txs)
                /\ Len(console) = 1
                /\ ret = Undefined

====
